---- MODULE Spec2Model ----
(***************************************************************************)
(* Model of the SEMD monitoring pipeline of MonitoringSEMD:                *)
(*   app/external/service/service.py            (MonitoringService)        *)
(*   app/external/service/child_services/Vista3Service.py  (SemdService)   *)
(*   app/external/Utils.py, app/external/service/models.py                 *)
(*   core/database/mysql_connection.py          (CConnection)              *)
(* Everything runs on one asyncio event loop: an action below is one       *)
(* uninterrupted stretch of coroutine code between two suspension points   *)
(* (a database statement or an HTTP request in flight).                    *)
(***************************************************************************)
EXTENDS Integers, Sequences, FiniteSets, Bags, TLC

\* ------------------------------------------------------------------ bounds
\* Trigger invocations (HTTP requests to /semd_info_list) that are modelled.
NumRuns == 2
\* Rows of each kind (finished actions, finished events) in the clinical store.
MaxRows == 1
\* send_requests_in_chunks: largest max_concurrent, max_retries and number of
\* chunks that are enumerated.
MaxConcurrent == 3
MaxRetries == 3
MaxChunks == 3
\* execute_stmt: calls that run side by side, and the executions of one
\* statement after which the model stops following the retries.
MaxCalls == 3
MaxExecutions == 4

\* ------------------------------------------------------- program constants
\* asyncio.Semaphore(8) of MonitoringService.__init__
GateSize == 8
\* Python's None for the Optional[int] fields; real ids are positive.
None == 0
\* The value execute_stmt RETURNS (does not raise) on ProgrammingError /
\* DatabaseError: a DatabaseException instance, which is truthy.
DatabaseException == -1
\* Identifier of a row found by the point lookup (AUTO_INCREMENT ids are > 0;
\* the code only tests the identifier for truthiness).
FoundId == 1

VARIABLES
    actionRows,   \* rows the Action query can see (clinical store)
    eventRows,    \* rows the Event query can see (clinical store)
    vista,        \* the external verifier: "echo" or "any"
    rejected,     \* event_ids of the documents the verifier always rejects
    dbFaults,     \* whether the database answers statements with DatabaseError
    table,        \* GetStatusTable2: bag of inserted rows (8 key columns)
    runPc,        \* per trigger invocation: position in main_scrypt
    window,       \* per run: <<start_date, end_date>>
    query,        \* per run: the two gathered collector queries, and the
                  \* order in which they finished
    after,        \* per run: the runs that had returned or raised when it
                  \* was triggered
    results,      \* per run: results of asyncio.gather, by position
    semd_list,    \* per run: the list collect_semd_all_info returned
    tasks,        \* per run: the process_semd_data tasks, in creation order
    semaphore,    \* per run: value of self.semaphore
    waiters,      \* per run: FIFO of tasks blocked in semaphore.acquire()
    vm,           \* one call of SemdService.send_requests_in_chunks
    db            \* calls of CConnection.execute_stmt

\* The environment: fixed during a behaviour.
envVars == <<actionRows, eventRows, vista, rejected, dbFaults>>
vars == <<actionRows, eventRows, vista, rejected, dbFaults, table, runPc, window, query, after, results,
          semd_list,
                   tasks, semaphore, waiters, vm, db>>

Runs == 1..NumRuns

\* ------------------------------------------------------------- data model
\* The 8 columns of the composite business key (check_semd_exist's WHERE).
KeyColumns == {"event_id", "person_id", "client_id", "doc_oid", "template_id",
               "semd_name", "semd_code", "action_id"}

\* A row of collect_semd_action_info's SELECT: one finished Action joined with
\* one print template; action_id and template_id make rows pairwise distinct.
ActionRow(i) ==
    [action_id |-> 10 + i, date_start |-> i, event_id |-> i, person_id |-> 2,
     client_id |-> 3, doc_oid |-> 100, template_id |-> 5,
     semd_name |-> "X", semd_code |-> "X1"]

\* A row of collect_semd_event_info's SELECT: no action_id column.
EventRow(i) ==
    [date_start |-> i, event_id |-> i, person_id |-> 2,
     client_id |-> 3, doc_oid |-> 100, template_id |-> 5,
     semd_name |-> "X", semd_code |-> "X1"]

\* SemdInfo(**row): a missing Optional field takes its default None.
SemdInfo(row) ==
    [event_id |-> row.event_id, client_id |-> row.client_id,
     doc_oid |-> row.doc_oid, template_id |-> row.template_id,
     semd_name |-> row.semd_name, semd_code |-> row.semd_code,
     date_start |-> row.date_start, person_id |-> row.person_id,
     action_id |-> IF "action_id" \in DOMAIN row THEN row.action_id ELSE None]

\* prepare_result(data, SemdInfo): one model per row, in row order.
prepare_result(rows) == [k \in 1..Len(rows) |-> SemdInfo(rows[k])]

\* SemdInsertModel(**response): the key columns come from the RESPONSE.
SemdInsertModel(response) ==
    [event_id |-> response.event_id, client_id |-> response.client_id,
     doc_oid |-> response.doc_oid, template_id |-> response.template_id,
     semd_name |-> response.semd_name, semd_code |-> response.semd_code,
     person_id |-> response.person_id, action_id |-> response.action_id,
     id |-> None]

\* The composite key of a SemdInfo / SemdInsertModel / table row.
KeyOf(m) == [c \in KeyColumns |-> m[c]]

\* Placeholder of a task that has no response yet.
NoModel == [c \in KeyColumns \cup {"id"} |-> IF c \in {"semd_name", "semd_code"}
                                              THEN "" ELSE None]


\* ------------------------------------------------------------ the store
Dates == 0..(MaxRows + 1)

\* start_date, end_date of one trigger invocation.
Windows == {w \in Dates \X Dates : w[1] <= w[2]}

\* WHERE begDate >= start_date AND begDate <= end_date (both queries), in the
\* order the store yields the rows.
InWindow(row, w) == row.date_start >= w[1] /\ row.date_start <= w[2]

RECURSIVE SelectWhere(_, _)
SelectWhere(rows, w) ==
    IF rows = <<>> THEN <<>>
    ELSE (IF InWindow(Head(rows), w) THEN <<Head(rows)>> ELSE <<>>)
         \o SelectWhere(Tail(rows), w)

\* collect_semd_action_info / collect_semd_event_info: the rows of the window,
\* each turned into a SemdInfo.
collect_semd_action_info(w) == prepare_result(SelectWhere(actionRows, w))
collect_semd_event_info(w) == prepare_result(SelectWhere(eventRows, w))

\* Mutant of chain_from_iterable: only the first gathered result is kept.
chain_first_result(res) == res[1]

\* list(itertools.chain.from_iterable(results)): the gathered results in the
\* order of gather's ARGUMENTS (action first), whichever finished first.
chain_from_iterable(res) == res[1] \o res[2]

\* ------------------------------------------------------------ the table
\* check_semd_exist's SELECT id ... WHERE <8 columns equal>; scalars().first().
\* `column == None` compiles to IS NULL, so None matches a NULL column.
\* semd_name and semd_code are `str` in SemdInfo: never None.
StringColumns == {"semd_name", "semd_code"}

\* Column c of the WHERE clause: `column = value`, or `column IS NULL` when the
\* value is None (a NULL column never equals a value).
ColumnMatches(c, stored, value) ==
    IF c \in StringColumns THEN stored = value
    ELSE IF value = None THEN stored = None
    ELSE (stored # None /\ stored = value)

\* Mutant of get_value: the WHERE clause leaves action_id out.
get_value_without_action_id(m) ==
    IF \E row \in BagToSet(table) :
          \A c \in KeyColumns \ {"action_id"} : ColumnMatches(c, row[c], m[c])
    THEN FoundId ELSE None

get_value(m) ==
    IF \E row \in BagToSet(table) : \A c \in KeyColumns : ColumnMatches(c, row[c], m[c])
    THEN FoundId ELSE None

\* Mutant of check_semd_exist: the id found is not stored in the model.
check_semd_exist_drops_id(m, result) == [m EXCEPT !.id = None]

\* data.id = result if result else None
check_semd_exist(m, result) == [m EXCEPT !.id = IF result # None THEN result ELSE None]

\* insert(GetStatusTable2).values(**existing_data.dict()): a new row.
InsertRow(m) == table (+) SetToBag({KeyOf(m)})

\* ------------------------------------------------------------ the tasks
\* Task positions: "waiting" (blocked in semaphore.acquire), "verify" (POST
\* /semd_infoV2 in flight), "check" (SELECT in flight), "insert" (INSERT in
\* flight), "done" (returned True), "failed" (raised).
\* requests counts the client.request calls send_request made for the task;
\* error is what ended it: "transient" (httpx.RemoteProtocolError or
\* httpx.ReadTimeout) or "permanent" (anything else), "" while there is none.
InGate == {"verify", "check", "insert"}
Settled == {"done", "failed"}

NewTask(data, pc) ==
    [data |-> data, pc |-> pc, model |-> NoModel, inserted |-> FALSE,
     requests |-> IF pc = "verify" THEN 1 ELSE 0, error |-> ""]

ErrorKinds == {"transient", "permanent"}

\* What the verifier may answer to a request for `data`: "echo" always echoes
\* the candidate, "any" answers with the key of any document it knows, or
\* fails. A rejected document is never answered.
Responses(data) ==
    IF data.event_id \in rejected THEN {}
    ELSE IF vista = "echo" THEN {KeyOf(data)}
    ELSE {KeyOf(data)} \cup {KeyOf(SemdInfo(row)) : row \in
              {actionRows[k] : k \in DOMAIN actionRows}
              \cup {eventRows[k] : k \in DOMAIN eventRows}}

TaskIds(r) == DOMAIN tasks[r]

\* Tasks of run r inside `async with self.semaphore`.
InGateCount(r) == Cardinality({i \in TaskIds(r) : tasks[r][i].pc \in InGate})
AllSettled(r) == \A i \in TaskIds(r) : tasks[r][i].pc \in Settled

\* Mutant of Release: leaving the block gives no permit back.
ReleaseNothing(r) == semaphore' = semaphore

\* async with self.semaphore: __aexit__ -> release(): value += 1.
Release(r) == semaphore' = [semaphore EXCEPT ![r] = @ + 1]

\* ------------------------------------------------------------ the actions
\* GET /semd_info_list: MonitoringService() (a fresh Semaphore(8)), main_scrypt,
\* collect_semd_all_info up to asyncio.gather: both queries are started.
get_semd_info_list(r, w) ==
    /\ runPc[r] = "idle"
    /\ runPc' = [runPc EXCEPT ![r] = "collecting"]
    /\ window' = [window EXCEPT ![r] = w]
    /\ semaphore' = [semaphore EXCEPT ![r] = GateSize]
    /\ query' = [query EXCEPT ![r] = [pc |-> <<"pending", "pending">>, order |-> <<>>]]
    /\ after' = [after EXCEPT ![r] = {o \in Runs : runPc[o] \in {"returned", "raised"}}]
    /\ UNCHANGED <<envVars, db, table, results, semd_list, tasks, waiters, vm>>

\* One of the two gathered queries returns its rows (q = 1: by Action,
\* q = 2: by Event).
CollectorReturn(r, q) ==
    /\ query[r].pc[q] = "pending"
    /\ query' = [query EXCEPT ![r].pc[q] = "done", ![r].order = Append(@, q)]
    /\ results' = [results EXCEPT ![r][q] =
                      IF q = 1 THEN collect_semd_action_info(window[r])
                      ELSE collect_semd_event_info(window[r])]
    /\ UNCHANGED <<envVars, db, table, runPc, window, after, semd_list,
                   tasks, semaphore, waiters, vm>>

\* One of the two gathered queries raises (session.execute or SemdInfo(**row)).
CollectorRaise(r, q) ==
    /\ query[r].pc[q] = "pending"
    /\ query' = [query EXCEPT ![r].pc[q] = "failed"]
    /\ UNCHANGED <<envVars, db, table, runPc, window, after, results, semd_list,
                   tasks, semaphore, waiters, vm>>

\* asyncio.gather propagates the first exception to collect_semd_all_info,
\* main_scrypt and the route; the other query is left running.
collect_semd_all_info_raise(r) ==
    /\ runPc[r] = "collecting"
    /\ \E q \in 1..2 : query[r].pc[q] = "failed"
    /\ runPc' = [runPc EXCEPT ![r] = "raised"]
    /\ UNCHANGED <<envVars, db, table, window, query, after, results, semd_list,
                   tasks, semaphore, waiters, vm>>

\* Mutant of LaunchedTasks: every candidate gets two tasks.
LaunchedTasksTwice(list, permits) ==
    [k \in 1..(2 * Len(list)) |->
        NewTask(list[((k - 1) % Len(list)) + 1], IF k <= permits THEN "verify" ELSE "waiting")]

\* The tasks insert_semd_all_info creates, after the first step of each: the
\* first GateSize acquire the semaphore at once and send their request, the
\* others queue up in semaphore.acquire() in creation order.
LaunchedTasks(list, permits) ==
    [k \in 1..Len(list) |-> NewTask(list[k], IF k <= permits THEN "verify" ELSE "waiting")]

\* Mutant of insert_semd_all_info: one gate for the whole process: the tasks
\* of a run get only the permits the other runs have left.
insert_semd_all_info_shared_gate(r) ==
    /\ runPc[r] = "collecting"
    /\ query[r].pc = <<"done", "done">>
    /\ LET list == chain_from_iterable(results[r])
           n == Len(list)
           taken == Cardinality({<<o, i>> \in (Runs \ {r}) \X (1..(GateSize + 1)) :
                                     i \in TaskIds(o) /\ tasks[o][i].pc \in InGate})
           permits == IF taken >= semaphore[r] THEN 0 ELSE semaphore[r] - taken
       IN /\ semd_list' = [semd_list EXCEPT ![r] = list]
          /\ tasks' = [tasks EXCEPT ![r] = LaunchedTasks(list, permits)]
          /\ semaphore' = [semaphore EXCEPT ![r] =
                              IF n <= permits THEN permits - n ELSE 0]
          /\ waiters' = [waiters EXCEPT ![r] =
                              [k \in 1..(IF n <= permits THEN 0 ELSE n - permits)
                                  |-> permits + k]]
    /\ runPc' = [runPc EXCEPT ![r] = "reconciling"]
    /\ query' = [query EXCEPT ![r] = [pc |-> <<"none", "none">>, order |-> <<>>]]
    /\ UNCHANGED <<envVars, db, table, window, after, results, vm>>

\* Mutant of insert_semd_all_info: the tasks are launched from whatever the
\* queries delivered, a failed query counting as an empty result.
insert_semd_all_info_partial(r) ==
    /\ runPc[r] = "collecting"
    /\ \A q \in 1..2 : query[r].pc[q] \in {"done", "failed"}
    /\ LET list == chain_from_iterable(results[r])
       IN /\ semd_list' = [semd_list EXCEPT ![r] = list]
          /\ tasks' = [tasks EXCEPT ![r] = LaunchedTasks(list, semaphore[r])]
          /\ semaphore' = [semaphore EXCEPT ![r] = @ - Len(list)]
    /\ runPc' = [runPc EXCEPT ![r] = "reconciling"]
    /\ UNCHANGED <<envVars, db, table, window, query, after, results, waiters, vm>>

\* gather returns both results; collect_semd_all_info chains them; main_scrypt
\* calls insert_semd_all_info, whose as_completed() schedules one task per
\* candidate. The first step of every task runs in the same loop iteration.
insert_semd_all_info(r) ==
    /\ runPc[r] = "collecting"
    /\ query[r].pc = <<"done", "done">>
    /\ LET list == chain_from_iterable(results[r])
           n == Len(list)
           permits == semaphore[r]
       IN /\ semd_list' = [semd_list EXCEPT ![r] = list]
          /\ tasks' = [tasks EXCEPT ![r] = LaunchedTasks(list, permits)]
          /\ semaphore' = [semaphore EXCEPT ![r] =
                              IF n <= permits THEN permits - n ELSE 0]
          /\ waiters' = [waiters EXCEPT ![r] =
                              [k \in 1..(IF n <= permits THEN 0 ELSE n - permits)
                                  |-> permits + k]]
    /\ runPc' = [runPc EXCEPT ![r] = "reconciling"]
    /\ query' = [query EXCEPT ![r] = [pc |-> <<"none", "none">>, order |-> <<>>]]
    /\ UNCHANGED <<envVars, db, table, window, after, results, vm>>

\* Mutant of process_semd_data_admit: a waiting task goes on without a permit.
process_semd_data_ungated(r, i) ==
    /\ waiters[r] # <<>>
    /\ i = Head(waiters[r])
    /\ waiters' = [waiters EXCEPT ![r] = Tail(@)]
    /\ tasks' = [tasks EXCEPT ![r][i].pc = "verify", ![r][i].requests = @ + 1]
    /\ UNCHANGED <<envVars, db, table, runPc, window, query, after, results, semd_list,
                   semaphore, vm>>

\* semaphore.acquire() of the longest-waiting task returns: it holds a permit
\* and sends its request.
process_semd_data_admit(r, i) ==
    /\ waiters[r] # <<>>
    /\ i = Head(waiters[r])
    /\ semaphore[r] > 0
    /\ semaphore' = [semaphore EXCEPT ![r] = @ - 1]
    /\ waiters' = [waiters EXCEPT ![r] = Tail(@)]
    /\ tasks' = [tasks EXCEPT ![r][i].pc = "verify", ![r][i].requests = @ + 1]
    /\ UNCHANGED <<envVars, db, table, runPc, window, query, after, results, semd_list, vm>>

\* get_semd_info returns response.json(); SemdInsertModel(**response) accepts
\* it; insert_semd_info -> check_semd_exist sends the SELECT.
get_semd_info_return(r, i, response) ==
    /\ tasks[r][i].pc = "verify"
    /\ response \in Responses(tasks[r][i].data)
    /\ tasks' = [tasks EXCEPT ![r][i].pc = "check",
                              ![r][i].model = SemdInsertModel(response)]
    /\ UNCHANGED <<envVars, db, table, runPc, window, query, after, results, semd_list, semaphore, waiters, vm>>

\* Mutant of get_semd_info_raise: the failed request is sent again.
get_semd_info_resends(r, i, error) ==
    /\ tasks[r][i].pc = "verify"
    /\ vista = "any" \/ tasks[r][i].data.event_id \in rejected
    /\ tasks[r][i].requests < 3
    /\ tasks' = [tasks EXCEPT ![r][i].requests = @ + 1]
    /\ UNCHANGED <<envVars, db, table, runPc, window, query, after, results, semd_list,
                   semaphore, waiters, vm>>

\* Mutant of get_semd_info_raise: the failure is recorded as a row of the
\* status table.
get_semd_info_raise_records(r, i, error) ==
    /\ tasks[r][i].pc = "verify"
    /\ vista = "any" \/ tasks[r][i].data.event_id \in rejected
    /\ tasks' = [tasks EXCEPT ![r][i].pc = "failed", ![r][i].error = error]
    /\ table' = table (+) SetToBag({KeyOf(tasks[r][i].data)})
    /\ Release(r)
    /\ UNCHANGED <<envVars, db, runPc, window, query, after, results, semd_list, waiters, vm>>

\* The request raises (httpx error of either kind, undecodable body) or
\* SemdInsertModel rejects the response: send_request and process_semd_data
\* have no except clause, so whatever the error it leaves
\* `async with self.semaphore`, which releases the permit, and ends the task.
get_semd_info_raise(r, i, error) ==
    /\ tasks[r][i].pc = "verify"
    /\ vista = "any" \/ tasks[r][i].data.event_id \in rejected
    /\ tasks' = [tasks EXCEPT ![r][i].pc = "failed", ![r][i].error = error]
    /\ Release(r)
    /\ UNCHANGED <<envVars, db, table, runPc, window, query, after, results, semd_list, waiters, vm>>

\* Mutant of check_semd_exist_return: a DatabaseException answer is raised.
check_semd_exist_return_raises_on_error(r, i, result) ==
    /\ tasks[r][i].pc = "check"
    /\ result \in {get_value(tasks[r][i].model)}
                 \cup (IF dbFaults THEN {DatabaseException} ELSE {})
    /\ LET existing_data == check_semd_exist(tasks[r][i].model, result)
       IN IF existing_data.id = None
          THEN /\ tasks' = [tasks EXCEPT ![r][i].pc = "insert",
                                         ![r][i].model = existing_data]
               /\ UNCHANGED semaphore
          ELSE /\ tasks' = [tasks EXCEPT ![r][i].pc =
                                             IF result = DatabaseException
                                             THEN "failed" ELSE "done",
                                         ![r][i].model = existing_data]
               /\ Release(r)
    /\ UNCHANGED <<envVars, db, table, runPc, window, query, after, results, semd_list, waiters, vm>>

\* Mutant of check_semd_exist_return: finding the row is treated as a failure
\* of the task.
check_semd_exist_return_raises_on_existing(r, i, result) ==
    /\ tasks[r][i].pc = "check"
    /\ result \in {get_value(tasks[r][i].model)}
                 \cup (IF dbFaults THEN {DatabaseException} ELSE {})
    /\ LET existing_data == check_semd_exist(tasks[r][i].model, result)
       IN IF existing_data.id = None
          THEN /\ tasks' = [tasks EXCEPT ![r][i].pc = "insert",
                                         ![r][i].model = existing_data]
               /\ UNCHANGED semaphore
          ELSE /\ tasks' = [tasks EXCEPT ![r][i].pc = "failed",
                                         ![r][i].model = existing_data]
               /\ Release(r)
    /\ UNCHANGED <<envVars, db, table, runPc, window, query, after, results, semd_list, waiters, vm>>

\* The SELECT of check_semd_exist returns (result = the id found or None) or
\* execute_stmt returns a DatabaseException. insert_semd_info then either
\* sends the INSERT or returns True, which ends the task and releases.
check_semd_exist_return(r, i, result) ==
    /\ tasks[r][i].pc = "check"
    /\ result \in {get_value(tasks[r][i].model)}
                 \cup (IF dbFaults THEN {DatabaseException} ELSE {})
    /\ LET existing_data == check_semd_exist(tasks[r][i].model, result)
       IN IF existing_data.id = None
          THEN /\ tasks' = [tasks EXCEPT ![r][i].pc = "insert",
                                         ![r][i].model = existing_data]
               /\ UNCHANGED semaphore
          ELSE /\ tasks' = [tasks EXCEPT ![r][i].pc = "done",
                                         ![r][i].model = existing_data]
               /\ Release(r)
    /\ UNCHANGED <<envVars, db, table, runPc, window, query, after, results, semd_list, waiters, vm>>

\* The INSERT of insert_semd_info is executed (ok) or execute_stmt returns a
\* DatabaseException, which insert_semd_info ignores; it returns True either way.
execute_stmt_insert(r, i, ok) ==
    /\ tasks[r][i].pc = "insert"
    /\ ok \/ dbFaults
    /\ table' = IF ok THEN InsertRow(tasks[r][i].model) ELSE table
    /\ tasks' = [tasks EXCEPT ![r][i].pc = "done", ![r][i].inserted = ok]
    /\ Release(r)
    /\ UNCHANGED <<envVars, db, runPc, window, query, after, results, semd_list, waiters, vm>>

\* Mutant of main_scrypt_return: the finished run is armed again.
main_scrypt_return_rearms(r) ==
    /\ runPc[r] = "reconciling"
    /\ \A i \in TaskIds(r) : tasks[r][i].pc = "done"
    /\ runPc' = [runPc EXCEPT ![r] = "idle"]
    /\ UNCHANGED <<envVars, db, table, window, query, after, results, semd_list,
                   tasks, semaphore, waiters, vm>>

\* insert_semd_all_info: `for task in as_completed(tasks): await task` has
\* awaited every task without an exception; main_scrypt returns.
main_scrypt_return(r) ==
    /\ runPc[r] = "reconciling"
    /\ \A i \in TaskIds(r) : tasks[r][i].pc = "done"
    /\ runPc' = [runPc EXCEPT ![r] = "returned"]
    /\ UNCHANGED <<envVars, db, table, window, query, after, results, semd_list,
                   tasks, semaphore, waiters, vm>>

\* Mutant of main_scrypt_raise: leaving the loop cancels the tasks that have
\* not settled, as a task group would.
main_scrypt_raise_cancels(r) ==
    /\ runPc[r] = "reconciling"
    /\ \E i \in TaskIds(r) : tasks[r][i].pc = "failed"
    /\ runPc' = [runPc EXCEPT ![r] = "raised"]
    /\ tasks' = [tasks EXCEPT ![r] =
                    [i \in TaskIds(r) |->
                        IF tasks[r][i].pc \in Settled THEN tasks[r][i]
                        ELSE [tasks[r][i] EXCEPT !.pc = "failed"]]]
    /\ waiters' = [waiters EXCEPT ![r] = <<>>]
    /\ semaphore' = [semaphore EXCEPT ![r] = @ + InGateCount(r)]
    /\ UNCHANGED <<envVars, db, table, window, query, after, results, semd_list, vm>>

\* `await task` of a task that raised re-raises in insert_semd_all_info: the
\* loop is left, main_scrypt raises, the remaining tasks stay scheduled.
main_scrypt_raise(r) ==
    /\ runPc[r] = "reconciling"
    /\ \E i \in TaskIds(r) : tasks[r][i].pc = "failed"
    /\ runPc' = [runPc EXCEPT ![r] = "raised"]
    /\ UNCHANGED <<envVars, db, table, window, query, after, results, semd_list,
                   tasks, semaphore, waiters, vm>>


\* ------------------------------------- SemdService.send_requests_in_chunks
VmIdle == [pc |-> "idle"]
\* vm is one call: pc ("idle", "running", "returned", "raised"), the arguments
\* max_concurrent and max_retries, mode (what the external service does),
\* semaphore and waiters (the call's own asyncio.Semaphore), and chunks, one
\* send_chunk coroutine per element of json_data:
\*   pc       "inflight"  client.request in flight at recursion depth `retry`
\*            "blocked"   waiting in semaphore.acquire() at depth `retry`
\*            "unwind"    returning through the depths that hold a permit
\*            "returned" / "raised"
\*   retry    the `retry` argument of the innermost send_chunk call
\*   held     permits held: one per depth that is inside `async with semaphore`
\*   requests client.request calls made so far
\*   result   "json", "None" or "error" once known, "" before
VmModes == {"transient", "mixed", "any"}

\* Mutant of NewSemaphore: one permit too many.
NewSemaphoreOffByOne(max_concurrent) == max_concurrent + 1

\* semaphore = asyncio.Semaphore(max_concurrent)
NewSemaphore(max_concurrent) == max_concurrent

\* Semaphore.locked(): no permit left, or somebody is already waiting.
Locked(v) == v.semaphore = 0 \/ v.waiters # <<>>

\* One send_chunk call entered at depth `retry` for chunk c: it returns None
\* past the budget, else it acquires the semaphore (at once when not locked,
\* else it queues) and sends the request.
EnterChunk(v, c, retry) ==
    IF retry > v.max_retries
    THEN [v EXCEPT !.chunks[c].retry = retry, !.chunks[c].pc = "unwind",
                   !.chunks[c].result = "None"]
    ELSE IF ~Locked(v)
    THEN [v EXCEPT !.semaphore = @ - 1, !.chunks[c].retry = retry,
                   !.chunks[c].pc = "inflight", !.chunks[c].held = @ + 1,
                   !.chunks[c].requests = @ + 1]
    ELSE [v EXCEPT !.waiters = Append(@, c), !.chunks[c].retry = retry,
                   !.chunks[c].pc = "blocked"]

RECURSIVE EnterAll(_, _, _)
EnterAll(v, c, n) == IF c > n THEN v ELSE EnterAll(EnterChunk(v, c, 0), c + 1, n)

NewChunk == [pc |-> "new", retry |-> 0, held |-> 0, requests |-> 0, result |-> ""]

\* send_requests_in_chunks(json_data of n elements, max_concurrent, max_retries):
\* prepare_request_values reads data[0], so an empty list raises IndexError;
\* else gather starts one send_chunk per element, each running up to its
\* request or to acquire() in the same loop iteration.
send_requests_in_chunks(n, max_concurrent, max_retries, mode) ==
    /\ vm.pc = "idle"
    /\ vm' = IF n = 0
             THEN [pc |-> "raised", max_concurrent |-> max_concurrent,
                   max_retries |-> max_retries, mode |-> mode,
                   semaphore |-> 0, waiters |-> <<>>, chunks |-> <<>>]
             ELSE EnterAll([pc |-> "running", max_concurrent |-> max_concurrent,
                            max_retries |-> max_retries, mode |-> mode,
                            semaphore |-> NewSemaphore(max_concurrent),
                            waiters |-> <<>>,
                            chunks |-> [c \in 1..n |-> NewChunk]], 1, n)
    /\ UNCHANGED <<envVars, db, table, runPc, window, query, after, results, semd_list,
                   tasks, semaphore, waiters>>

VmFrame == UNCHANGED <<envVars, db, table, runPc, window, query, after, results,
                       semd_list, tasks, semaphore, waiters>>

VmRunning(c) == vm.pc # "idle" /\ c \in DOMAIN vm.chunks

\* client.request returns and response.json() decodes: send_chunk returns it.
send_chunk_response(c) ==
    /\ VmRunning(c)
    /\ vm.chunks[c].pc = "inflight"
    /\ vm.mode \in {"mixed", "any"}
    /\ vm' = [vm EXCEPT !.chunks[c].pc = "unwind", !.chunks[c].result = "json"]
    /\ VmFrame

\* client.request raises httpx.RemoteProtocolError or httpx.ReadTimeout: the
\* handler calls send_chunk(data, retry + 1) INSIDE `async with semaphore`,
\* so the permit of this depth stays held while the next depth runs.
send_chunk_retry(c) ==
    /\ VmRunning(c)
    /\ vm.chunks[c].pc = "inflight"
    /\ vm' = EnterChunk(vm, c, vm.chunks[c].retry + 1)
    /\ VmFrame

\* client.request or response.json() raises anything else: not caught.
send_chunk_error(c) ==
    /\ VmRunning(c)
    /\ vm.chunks[c].pc = "inflight"
    /\ vm.mode = "any"
    /\ vm' = [vm EXCEPT !.chunks[c].pc = "unwind", !.chunks[c].result = "error"]
    /\ VmFrame

\* acquire() of the longest-waiting send_chunk call returns; it sends its
\* request.
send_chunk_admit(c) ==
    /\ VmRunning(c)
    /\ vm.waiters # <<>>
    /\ c = Head(vm.waiters)
    /\ vm.semaphore > 0
    /\ vm' = [vm EXCEPT !.semaphore = @ - 1, !.waiters = Tail(@),
                        !.chunks[c].pc = "inflight", !.chunks[c].held = @ + 1,
                        !.chunks[c].requests = @ + 1]
    /\ VmFrame

\* The result (or the exception) passes one depth: that depth leaves
\* `async with httpx.AsyncClient` and `async with semaphore`, releasing its
\* permit; past the outermost depth the coroutine is finished.
send_chunk_unwind(c) ==
    /\ VmRunning(c)
    /\ vm.chunks[c].pc = "unwind"
    /\ vm.chunks[c].held > 0
    /\ vm' = [vm EXCEPT !.semaphore = @ + 1,
                        !.chunks[c].held = @ - 1,
                        !.chunks[c].pc = IF vm.chunks[c].held > 1 THEN "unwind"
                                         ELSE IF vm.chunks[c].result = "error"
                                         THEN "raised" ELSE "returned"]
    /\ VmFrame

\* asyncio.gather returns the list of results once every send_chunk returned.
gather_return ==
    /\ vm.pc = "running"
    /\ \A c \in DOMAIN vm.chunks : vm.chunks[c].pc = "returned"
    /\ vm' = [vm EXCEPT !.pc = "returned"]
    /\ VmFrame

\* Mutant of gather_raise: the exceptions are collected like results
\* (return_exceptions=True) and the call returns.
gather_return_exceptions ==
    /\ vm.pc = "running"
    /\ \E c \in DOMAIN vm.chunks : vm.chunks[c].pc = "raised"
    /\ vm' = [vm EXCEPT !.pc = "returned"]
    /\ VmFrame

\* asyncio.gather propagates the first exception; the other coroutines go on.
gather_raise ==
    /\ vm.pc = "running"
    /\ \E c \in DOMAIN vm.chunks : vm.chunks[c].pc = "raised"
    /\ vm' = [vm EXCEPT !.pc = "raised"]
    /\ VmFrame

\* ------------------------------------------------ CConnection.execute_stmt
\* db[c] is one call of execute_stmt:
\*   pc          "idle", "executing" (session.execute in flight), "sleeping"
\*               (asleep(0.2) of the OperationalError handler), "returned"
\*   executions  session.execute calls made for the statement so far; the
\*               call is executions - 1 recursions deep, each depth inside
\*               its own `async with self.get_session()`
\*   result      "Result" or "DatabaseException" once returned, "" before
Calls == 1..MaxCalls
DbIdle == [pc |-> "idle", executions |-> 0, result |-> ""]

DbFrame == UNCHANGED <<envVars, vm, table, runPc, window, query, after, results,
                       semd_list, tasks, semaphore, waiters>>

\* execute_stmt(stmt): a session is opened and session.execute(stmt) is sent.
execute_stmt(c) ==
    /\ db[c].pc = "idle"
    /\ db' = [db EXCEPT ![c] = [pc |-> "executing", executions |-> 1, result |-> ""]]
    /\ DbFrame

\* session.execute and session.commit succeed: `return result`.
session_execute_return(c) ==
    /\ db[c].pc = "executing"
    /\ db' = [db EXCEPT ![c].pc = "returned", ![c].result = "Result"]
    /\ DbFrame

\* except OperationalError: await asleep(0.2)
session_execute_OperationalError(c) ==
    /\ db[c].pc = "executing"
    /\ db' = [db EXCEPT ![c].pc = "sleeping"]
    /\ DbFrame

\* ... return await self.execute_stmt(stmt): the statement is executed again,
\* one recursion deeper, whatever the number of executions so far (executions
\* counts them up to MaxExecutions and then stands for "MaxExecutions or more").
execute_stmt_again(c) ==
    /\ db[c].pc = "sleeping"
    /\ db' = [db EXCEPT ![c].pc = "executing",
                        ![c].executions = IF @ < MaxExecutions THEN @ + 1 ELSE @]
    /\ DbFrame

\* except (ProgrammingError, DatabaseError): return DatabaseException(...) --
\* the exception object is the RETURN VALUE of execute_stmt.
session_execute_DatabaseError(c) ==
    /\ db[c].pc = "executing"
    /\ db' = [db EXCEPT ![c].pc = "returned", ![c].result = "DatabaseException"]
    /\ DbFrame


\* --------------------------------------------------------- specification

InitRuns ==
    /\ table = EmptyBag
    /\ runPc = [r \in Runs |-> "idle"]
    /\ window = [r \in Runs |-> <<0, 0>>]
    /\ query = [r \in Runs |-> [pc |-> <<"none", "none">>, order |-> <<>>]]
    /\ after = [r \in Runs |-> {}]
    /\ results = [r \in Runs |-> <<(<<>>), (<<>>)>>]
    /\ semd_list = [r \in Runs |-> <<>>]
    /\ tasks = [r \in Runs |-> <<>>]
    /\ semaphore = [r \in Runs |-> GateSize]
    /\ waiters = [r \in Runs |-> <<>>]
    /\ db = [c \in Calls |-> DbIdle]

Init ==
    /\ actionRows = [k \in 1..MaxRows |-> ActionRow(k)]
    /\ eventRows = [k \in 1..MaxRows |-> EventRow(k + 1)]
    /\ vista \in {"echo", "any"}
    /\ rejected = {}
    /\ dbFaults = TRUE
    /\ InitRuns
    /\ vm = VmIdle

\* The steps of the tasks of a run whose candidates all pass the gate at once
\* (at most GateSize candidates: nothing ever waits in acquire()).
TaskNext(r) ==
    \E i \in TaskIds(r) :
        \/ \E response \in Responses(tasks[r][i].data) : get_semd_info_return(r, i, response)
        \/ \E error \in ErrorKinds : get_semd_info_raise(r, i, error)
        \/ \E result \in {None, FoundId, DatabaseException} : check_semd_exist_return(r, i, result)
        \/ \E ok \in BOOLEAN : execute_stmt_insert(r, i, ok)

RunNext(r) ==
    \/ \E w \in Windows : get_semd_info_list(r, w)
    \/ \E q \in 1..2 : CollectorReturn(r, q)
    \/ \E q \in 1..2 : CollectorRaise(r, q)
    \/ collect_semd_all_info_raise(r)
    \/ insert_semd_all_info(r)
    \/ main_scrypt_return(r)
    \/ main_scrypt_raise(r)

Next == \E r \in Runs : RunNext(r) \/ TaskNext(r)

Spec == Init /\ [][Next]_vars

\* ------------------------------------------- one run larger than the gate
\* One trigger invocation over a window holding GateSize + 1 finished actions,
\* so that one task has to wait in acquire(). The verifier echoes every
\* document but the rejected ones: one of them, or all that pass the gate first.
GateRows == GateSize + 1

InitGate ==
    /\ actionRows = [k \in 1..GateRows |-> ActionRow(k)]
    /\ eventRows = <<>>
    /\ vista = "echo"
    /\ rejected \in {{7}, 1..GateSize}
    /\ dbFaults = FALSE
    /\ InitRuns
    /\ vm = VmIdle

GateTaskNext(r) ==
    \E i \in TaskIds(r) :
        \/ process_semd_data_admit(r, i)
        \/ \E response \in Responses(tasks[r][i].data) : get_semd_info_return(r, i, response)
        \/ get_semd_info_raise(r, i, "permanent")
        \/ \E result \in {None, FoundId} : check_semd_exist_return(r, i, result)
        \/ execute_stmt_insert(r, i, TRUE)

\* (main_scrypt_return is left out: with a rejected document among the
\* candidates not every task ends "done", so it is never enabled.)
GateRunNext(r) ==
    \/ get_semd_info_list(r, <<1, GateRows>>)
    \/ \E q \in 1..2 : CollectorReturn(r, q)
    \/ insert_semd_all_info(r)
    \/ main_scrypt_raise(r)

NextGate == GateRunNext(1) \/ GateTaskNext(1)

SpecGate == InitGate /\ [][NextGate]_vars


\* ------------------------------ one call of send_requests_in_chunks alone
InitVm ==
    /\ actionRows = <<>>
    /\ eventRows = <<>>
    /\ vista = "echo"
    /\ rejected = {}
    /\ dbFaults = FALSE
    /\ InitRuns
    /\ vm = VmIdle

NextVm ==
    \/ \E n \in 0..MaxChunks, max_concurrent \in 1..MaxConcurrent,
          max_retries \in 0..MaxRetries, mode \in VmModes :
            send_requests_in_chunks(n, max_concurrent, max_retries, mode)
    \/ \E c \in 1..MaxChunks :
          \/ send_chunk_response(c)
          \/ send_chunk_retry(c)
          \/ send_chunk_error(c)
          \/ send_chunk_admit(c)
          \/ send_chunk_unwind(c)
    \/ gather_return
    \/ gather_raise

SpecVm == InitVm /\ [][NextVm]_vars

\* The event loop runs every coroutine that is ready, and every request in
\* flight is eventually answered: a step that stays possible is taken.
SpecVmFair == InitVm /\ [][NextVm]_vars /\ WF_vars(NextVm)

\* -------------------------------- two runs, each as large as the gate
\* The trigger is invoked twice, over overlapping windows: run 1 collects
\* GateSize + 1 candidates, run 2 GateSize of them. The verifier is down: it
\* rejects every document, in any order.
InitTwoGates ==
    /\ actionRows = [k \in 1..GateRows |-> ActionRow(k)]
    /\ eventRows = <<>>
    /\ vista = "echo"
    /\ rejected = 1..GateRows
    /\ dbFaults = FALSE
    /\ InitRuns
    /\ vm = VmIdle

TwoGatesWindow(r) == IF r = 1 THEN <<1, GateRows>> ELSE <<1, GateSize>>

\* (The moment at which main_scrypt raises to the route is not followed here:
\* main_scrypt_raise changes neither a task nor a semaphore.)
NextTwoGates ==
    \E r \in 1..2 :
        \/ get_semd_info_list(r, TwoGatesWindow(r))
        \/ \E q \in 1..2 : CollectorReturn(r, q)
        \/ insert_semd_all_info(r)
        \/ \E i \in TaskIds(r) :
              \/ process_semd_data_admit(r, i)
              \/ get_semd_info_raise(r, i, "permanent")

SpecTwoGates == InitTwoGates /\ [][NextTwoGates]_vars

\* ------------------------------- one lookup against one stored record
\* The key of a document, and the keys that differ from it in one column: an
\* integer column by its value or by being absent, a string column by its
\* text.
BaseKey == KeyOf(SemdInfo(ActionRow(1)))

OtherValue(c, v) ==
    IF c \in StringColumns THEN "Y"
    ELSE IF c \in {"action_id", "person_id"} THEN None
    ELSE v + 1

KeyVariants == {BaseKey} \cup {[BaseKey EXCEPT ![c] = OtherValue(c, @)] : c \in KeyColumns}

\* One task of a run has its outcome and is about to look it up, while the
\* table holds one record; the database answers without error.
InitKey ==
    /\ actionRows = <<ActionRow(1)>>
    /\ eventRows = <<>>
    /\ vista = "any"
    /\ rejected = {}
    /\ dbFaults = FALSE
    /\ vm = VmIdle
    /\ db = [c \in Calls |-> DbIdle]
    /\ \E stored \in KeyVariants : table = SetToBag({stored})
    /\ runPc = [r \in Runs |-> IF r = 1 THEN "reconciling" ELSE "idle"]
    /\ window = [r \in Runs |-> <<1, 1>>]
    /\ query = [r \in Runs |-> [pc |-> <<"none", "none">>, order |-> <<>>]]
    /\ after = [r \in Runs |-> {}]
    /\ results = [r \in Runs |-> IF r = 1 THEN <<(<<SemdInfo(ActionRow(1))>>), (<<>>)>>
                                  ELSE <<(<<>>), (<<>>)>>]
    /\ semd_list = [r \in Runs |-> IF r = 1 THEN <<SemdInfo(ActionRow(1))>> ELSE <<>>]
    /\ \E outcome \in KeyVariants :
          tasks = [r \in Runs |->
                      IF r = 1
                      THEN <<[NewTask(SemdInfo(ActionRow(1)), "verify") EXCEPT
                                 !.pc = "check", !.model = SemdInsertModel(outcome)]>>
                      ELSE <<>>]
    /\ semaphore = [r \in Runs |-> IF r = 1 THEN GateSize - 1 ELSE GateSize]
    /\ waiters = [r \in Runs |-> <<>>]

NextKey ==
    \/ \E result \in {None, FoundId} : check_semd_exist_return(1, 1, result)
    \/ execute_stmt_insert(1, 1, TRUE)
    \/ main_scrypt_return(1)

SpecKey == InitKey /\ [][NextKey]_vars

\* ------------------------------------ calls of execute_stmt side by side
InitDb ==
    /\ actionRows = <<>>
    /\ eventRows = <<>>
    /\ vista = "echo"
    /\ rejected = {}
    /\ dbFaults = TRUE
    /\ InitRuns
    /\ vm = VmIdle

NextDb ==
    \E c \in Calls :
        \/ execute_stmt(c)
        \/ session_execute_return(c)
        \/ session_execute_OperationalError(c)
        \/ execute_stmt_again(c)
        \/ session_execute_DatabaseError(c)

SpecDb == InitDb /\ [][NextDb]_vars


\* ------------------------- one run with the statements of its task in full
\* One trigger invocation over a window holding one finished action; the
\* verifier echoes. The SELECT of check_semd_exist and the INSERT of
\* insert_semd_info of task i are calls of execute_stmt of their own.
LookupCall(i) == 2 * i - 1
InsertCall(i) == 2 * i
RetryWindow == <<1, 1>>

\* check_semd_exist -> get_value -> execute_stmt(select): the SELECT is sent.
check_semd_exist_execute(r, i) ==
    /\ tasks[r][i].pc = "check"
    /\ execute_stmt(LookupCall(i))

\* execute_stmt has returned to get_value: the id found (or None), or the
\* DatabaseException it returned.
check_semd_exist_answer(r, i) ==
    /\ db[LookupCall(i)].pc = "returned"
    /\ check_semd_exist_return(r, i, IF db[LookupCall(i)].result = "Result"
                                     THEN get_value(tasks[r][i].model)
                                     ELSE DatabaseException)

\* insert_semd_info -> execute_stmt(insert): the INSERT is sent.
insert_semd_info_execute(r, i) ==
    /\ tasks[r][i].pc = "insert"
    /\ execute_stmt(InsertCall(i))

\* execute_stmt has returned to insert_semd_info, which returns True.
insert_semd_info_answer(r, i) ==
    /\ db[InsertCall(i)].pc = "returned"
    /\ execute_stmt_insert(r, i, db[InsertCall(i)].result = "Result")

InitRetry ==
    /\ actionRows = [k \in 1..MaxRows |-> ActionRow(k)]
    /\ eventRows = [k \in 1..MaxRows |-> EventRow(k + 1)]
    /\ vista = "echo"
    /\ rejected = {}
    /\ dbFaults = TRUE
    /\ InitRuns
    /\ vm = VmIdle

RetryRunNext ==
    \/ get_semd_info_list(1, RetryWindow)
    \/ \E q \in 1..2 : CollectorReturn(1, q)
    \/ insert_semd_all_info(1)
    \/ main_scrypt_return(1)

RetryTaskNext(i) ==
    \/ get_semd_info_return(1, i, KeyOf(tasks[1][i].data))
    \/ check_semd_exist_execute(1, i)
    \/ check_semd_exist_answer(1, i)
    \/ insert_semd_info_execute(1, i)
    \/ insert_semd_info_answer(1, i)

RetryCallNext(c) ==
    \/ session_execute_return(c)
    \/ session_execute_OperationalError(c)
    \/ execute_stmt_again(c)
    \/ session_execute_DatabaseError(c)

NextRetry ==
    \/ RetryRunNext
    \/ \E i \in TaskIds(1) : RetryTaskNext(i)
    \/ \E c \in Calls : RetryCallNext(c)

SpecRetry == InitRetry /\ [][NextRetry]_vars

\* Fair scheduling: the event loop runs every coroutine that can go on, and
\* every request in flight (verifier, session.execute, asleep) is eventually
\* answered. Nothing obliges the database to stop answering with
\* OperationalError, so the answers themselves are only weakly fair.
SpecRetryFair ==
    /\ SpecRetry
    /\ WF_vars(RetryRunNext)
    /\ \A i \in 1..MaxRows : WF_vars(i \in TaskIds(1) /\ RetryTaskNext(i))
    /\ \A c \in Calls :
          /\ WF_vars(session_execute_return(c))
          /\ WF_vars(session_execute_DatabaseError(c))
          /\ WF_vars(execute_stmt_again(c))
          /\ WF_vars(RetryCallNext(c))


\* ==================================================================== claims
Count(x, seq) == Cardinality({k \in DOMAIN seq : seq[k] = x})
Range(seq) == {seq[k] : k \in DOMAIN seq}
\* The run got as far as creating its tasks.
Launched(r) ==
    \/ runPc[r] \in {"reconciling", "returned"}
    \/ runPc[r] = "raised" /\ query[r].pc = <<"none", "none">>
\* No lookup or insert of run r was answered with a DatabaseError.
NoDatabaseError(r) ==
    \A i \in TaskIds(r) :
        /\ tasks[r][i].model.id # DatabaseException
        /\ (tasks[r][i].pc = "done" /\ tasks[r][i].model.id = None) => tasks[r][i].inserted

\* C1: whenever a run has returned, the status table holds at most one row
\* per business key (8 key columns), however many runs there were and however
\* their windows overlap (stated here for a verifier that echoes the
\* candidate, the case most favourable to the claim).
C1_AtMostOneRecordPerKey ==
    (vista = "echo" /\ \E r \in Runs : runPc[r] = "returned")
        => \A k \in BagToSet(table) : CopiesIn(k, table) <= 1

\* C2: a run in which the verifier failed for a candidate does not raise: the
\* candidate's exception is not propagated to the caller of main_scrypt.
C2_RunReturnsNormally ==
    \A r \in Runs :
        (\E i \in TaskIds(r) : tasks[r][i].pc = "failed") => runPc[r] # "raised"

\* C3: main_scrypt has not left (returned or raised) while a task it launched
\* is still unsettled.
C3_ReturnsAfterAllSettled ==
    \A r \in Runs : (Launched(r) /\ runPc[r] \in {"returned", "raised"}) => AllSettled(r)

\* The step in which a task fails changes no sibling and gives the permit
\* back; the step in which the run raises changes no task.
C4_StepIsLocal ==
    \A r \in Runs :
        /\ \A i \in TaskIds(r) :
              (tasks[r][i].pc # "failed" /\ tasks'[r][i].pc = "failed")
                  => /\ \A j \in TaskIds(r) \ {i} : tasks'[r][j] = tasks[r][j]
                     /\ semaphore'[r] = semaphore[r] + 1
                     /\ waiters'[r] = waiters[r]
        /\ (runPc[r] # "raised" /\ runPc'[r] = "raised") => tasks'[r] = tasks[r]

\* A task waits at the gate only while GateSize siblings are inside or a
\* permit is free for it.
C4_NotBlocked ==
    \A r \in Runs :
        /\ waiters[r] # <<>> => (semaphore[r] > 0 \/ InGateCount(r) = GateSize)
        /\ \A i \in TaskIds(r) : tasks[r][i].pc = "waiting" => i \in Range(waiters[r])

\* When nothing can move any more, every task has settled, and each one the
\* verifier answers is done with its row in the table.
C4_RunsToCompletion ==
    (~ ENABLED NextGate) =>
        \A r \in Runs : \A i \in TaskIds(r) :
            /\ tasks[r][i].pc \in Settled
            /\ tasks[r][i].data.event_id \notin rejected
                  => /\ tasks[r][i].pc = "done"
                     /\ CopiesIn(KeyOf(tasks[r][i].data), table) >= 1

\* C4: the failure of one task never cancels or blocks the tasks of the other
\* candidates of its run: the failing step and the raise of the run leave the
\* siblings untouched, no sibling is left waiting at the gate for a permit
\* the failed task kept, and every sibling runs its verifier call and its
\* exists-check/insert to completion.
C4_FailureIsLocal ==
    [](C4_NotBlocked /\ C4_RunsToCompletion) /\ [][C4_StepIsLocal]_vars

\* C4 witness: a task failed, the run raised, and every sibling, the one that
\* had to wait at the gate included, has finished with its row inserted.
C4_Witness ==
    /\ runPc[1] = "raised"
    /\ Len(tasks[1]) = GateRows
    /\ \E i \in TaskIds(1) : tasks[1][i].pc = "failed"
    /\ tasks[1][GateRows].pc = "done" /\ tasks[1][GateRows].inserted
    /\ \A i \in TaskIds(1) :
          tasks[1][i].data.event_id \notin rejected => tasks[1][i].inserted

\* C5: at no moment are more than 8 tasks of a run inside the gated section
\* of process_semd_data (verifier call, exists-check, insert).
C5_AtMostEightInGate == \A r \in Runs : InGateCount(r) <= 8

\* C5 witness: the task that had to wait has been admitted, and with it 8
\* tasks are inside the gated section.
C5_Witness ==
    /\ Len(tasks[1]) = GateRows
    /\ tasks[1][GateRows].pc \in InGate
    /\ InGateCount(1) = 8

\* Requests in flight of the send_requests_in_chunks call.
InFlight == {c \in DOMAIN vm.chunks : vm.chunks[c].pc = "inflight"}

\* C6: when every request fails with a transient error, a verifyMany call
\* with at least one candidate raises nothing, and once it has come to rest
\* it has returned None for every candidate after exactly max_retries + 1
\* requests each.
C6_TransientYieldsNulls ==
    (vm.pc # "idle" /\ vm.mode = "transient" /\ Len(vm.chunks) >= 1)
        => /\ vm.pc # "raised"
           /\ (~ ENABLED NextVm)
                 => /\ vm.pc = "returned"
                    /\ \A c \in DOMAIN vm.chunks :
                          /\ vm.chunks[c].result = "None"
                          /\ vm.chunks[c].requests = vm.max_retries + 1

\* C7: the requests in flight of one send_requests_in_chunks call never
\* exceed max_concurrent.
C7_InFlightBounded ==
    vm.pc # "idle" => Cardinality(InFlight) <= vm.max_concurrent

\* C7 witness: in a call whose requests succeed or fail transiently, one
\* candidate has its result, max_concurrent requests are in flight and
\* another candidate waits for a permit.
C7_Witness ==
    /\ vm.pc = "running"
    /\ vm.mode = "mixed"
    /\ Cardinality(InFlight) = vm.max_concurrent
    /\ \E c \in DOMAIN vm.chunks : vm.chunks[c].pc = "blocked"
    /\ \E c \in DOMAIN vm.chunks : vm.chunks[c].pc = "returned"

\* C8: after process_semd_data(candidate) returned True without a database
\* error, the table holds a row whose 8 key columns equal the candidate's.
C8_KeyCompleteness ==
    \A r \in Runs : \A i \in TaskIds(r) :
        (/\ tasks[r][i].pc = "done"
         /\ tasks[r][i].model.id # DatabaseException
         /\ tasks[r][i].model.id = None => tasks[r][i].inserted)
            => CopiesIn(KeyOf(tasks[r][i].data), table) >= 1

\* Run r2 was triggered over the window of r1 after r1 had returned, and the
\* verifier echoes.
SecondRun(r1, r2) ==
    /\ vista = "echo"
    /\ r1 \in after[r2] /\ runPc[r1] = "returned"
    /\ window[r1] = window[r2]

\* C9: with an echoing verifier and unchanged collector results, a second run
\* over the same window, started after the first returned, inserts no row.
C9_SecondRunInsertsNothing ==
    \A r1, r2 \in Runs :
        SecondRun(r1, r2) => \A i \in TaskIds(r2) : ~ tasks[r2][i].inserted

\* What does hold: when no lookup or insert of the first run was answered
\* with a DatabaseError, the second run sends no INSERT and inserts no row.
SecondRunInsertsNothingAfterCleanRun ==
    \A r1, r2 \in Runs :
        (SecondRun(r1, r2) /\ NoDatabaseError(r1))
            => \A i \in TaskIds(r2) :
                  tasks[r2][i].pc # "insert" /\ ~ tasks[r2][i].inserted

\* The first run inserted a row, the second run over the same window has
\* returned, every task of it found the row and inserted nothing.
SecondRunFoundEveryRow ==
    \E r1, r2 \in Runs :
        /\ SecondRun(r1, r2) /\ NoDatabaseError(r1)
        /\ \E i \in TaskIds(r1) : tasks[r1][i].inserted
        /\ runPc[r2] = "returned"
        /\ TaskIds(r2) # {}
        /\ \A i \in TaskIds(r2) : tasks[r2][i].model.id = FoundId /\ ~ tasks[r2][i].inserted

\* What collect_semd_all_info returns, once both queries are back.
Collected(r) ==
    IF runPc[r] = "collecting" THEN chain_from_iterable(results[r]) ELSE semd_list[r]

\* C10: the list collect_semd_all_info returns holds every candidate exactly
\* as often as the two queries return it together, and nothing else,
\* whichever query finished first.
C10_UnionCorrect ==
    \A r \in Runs :
        ((runPc[r] = "collecting" /\ query[r].pc = <<"done", "done">>) \/ Launched(r))
            => \A x \in Range(Collected(r))
                        \cup Range(collect_semd_action_info(window[r]))
                        \cup Range(collect_semd_event_info(window[r])) :
                  Count(x, Collected(r)) =
                      Count(x, collect_semd_action_info(window[r]))
                      + Count(x, collect_semd_event_info(window[r]))

\* C10 witness: both queries returned a candidate, the Event query first, and
\* the chained list holds both.
C10_Witness ==
    \E r \in Runs :
        /\ runPc[r] = "collecting"
        /\ query[r].order = <<2, 1>>
        /\ Len(results[r][1]) >= 1 /\ Len(results[r][2]) >= 1
        /\ Len(Collected(r)) = 2

\* C11: one call of execute_stmt executes its statement at most twice, however
\* long the database keeps answering with OperationalError.
C11_AtMostTwoExecutions == \A c \in Calls : db[c].executions <= 2

\* C12: a task whose lookup or insert was answered with a DatabaseError does
\* not end as a success: it has not returned True.
C12_DatabaseErrorFailsTask ==
    \A r \in Runs : \A i \in TaskIds(r) :
        tasks[r][i].pc = "done"
            => /\ tasks[r][i].model.id # DatabaseException
               /\ tasks[r][i].model.id = None => tasks[r][i].inserted

\* C13: a run in which verifier requests failed with transient network
\* errors only does not fail: the candidates concerned are skipped and
\* main_scrypt does not raise.
C13_TransientErrorSkipsCandidate ==
    \A r \in Runs :
        (/\ \E i \in TaskIds(r) : tasks[r][i].error = "transient"
         /\ \A i \in TaskIds(r) : tasks[r][i].error # "permanent")
            => runPc[r] # "raised"

\* C14: get_semd_info sends exactly one request per call and never a second
\* one; when the request fails, of whatever kind the error, the call raises
\* to process_semd_data (the task fails) and leaves no outcome.
C14_OneRequestNoRetry ==
    \A r \in Runs : \A i \in TaskIds(r) :
        /\ tasks[r][i].requests = (IF tasks[r][i].pc = "waiting" THEN 0 ELSE 1)
        /\ tasks[r][i].error # ""
              => /\ tasks[r][i].pc = "failed"
                 /\ tasks[r][i].model = NoModel
                 /\ ~ tasks[r][i].inserted
        /\ tasks[r][i].pc = "failed" => tasks[r][i].error # ""

\* C14 witness: one request failed with a transient error and its task has
\* failed after that single request, while a sibling got its outcome.
C14_Witness ==
    \E r \in Runs : \E i, j \in TaskIds(r) :
        /\ tasks[r][i].pc = "failed" /\ tasks[r][i].error = "transient"
        /\ tasks[r][i].requests = 1
        /\ tasks[r][j].pc = "done" /\ tasks[r][j].requests = 1

\* A request that failed with another error than the two retried ones is
\* never sent again and its candidate never gets a result.
C15_ErrorIsFinal ==
    vm.pc # "idle" =>
        \A c \in DOMAIN vm.chunks :
            vm.chunks[c].result = "error"
                => /\ vm'.chunks[c].result = "error"
                   /\ vm'.chunks[c].requests = vm.chunks[c].requests
                   /\ vm'.chunks[c].pc \in {"unwind", "raised"}

\* The call does not return once a request has failed that way, and when
\* nothing can move any more it has raised.
C15_CallRaises ==
    (vm.pc # "idle" /\ \E c \in DOMAIN vm.chunks : vm.chunks[c].result = "error")
        => /\ vm.pc # "returned"
           /\ (~ ENABLED NextVm) => vm.pc = "raised"

\* C15: in send_requests_in_chunks a request that fails with an error other
\* than RemoteProtocolError or ReadTimeout is not retried and not turned into
\* None: the error propagates out of the call.
C15_NonRetriablePropagates == []C15_CallRaises /\ [][C15_ErrorIsFinal]_vars

\* C15 witness: a request failed that way after a transient failure of the
\* same candidate had been retried, and the call has raised.
C15_Witness ==
    /\ vm.pc = "raised"
    /\ \E c \in DOMAIN vm.chunks :
          /\ vm.chunks[c].pc = "raised"
          /\ vm.chunks[c].result = "error"
          /\ vm.chunks[c].requests >= 2

\* A collector query of run r has raised.
CollectorFailed(r) == \E q \in 1..2 : query[r].pc[q] = "failed"

\* C16: when a collector query of a run has failed, collect_semd_all_info
\* returns no list, not even the result of the other query: the run has no
\* candidate list and no task, has made no verifier call and no insert, and
\* it raises (it is still collecting only as long as the raise is pending).
C16_CollectorFailureAbortsRun ==
    \A r \in Runs :
        CollectorFailed(r)
            => /\ semd_list[r] = <<>>
               /\ tasks[r] = <<>>
               /\ runPc[r] \in {"collecting", "raised"}
               /\ runPc[r] = "collecting" => ENABLED collect_semd_all_info_raise(r)
               /\ (\A o \in Runs \ {r} : tasks[o] = <<>>) => table = EmptyBag

\* C16 witness: one query of a run failed after the other had returned a
\* candidate; the run has raised and launched nothing.
C16_Witness ==
    \E r \in Runs : \E q \in 1..2 :
        /\ runPc[r] = "raised"
        /\ query[r].pc[q] = "failed"
        /\ query[r].pc[3 - q] = "done"
        /\ Len(results[r][3 - q]) >= 1
        /\ tasks[r] = <<>>

\* No row of the table goes away in the step, a task inserts only after a
\* lookup that found nothing, and a task whose lookup is answered while a row
\* with its key exists returns without touching the table.
C17_StepAppendsOnly ==
    /\ \A k \in BagToSet(table) : CopiesIn(k, table') >= CopiesIn(k, table)
    /\ \A r \in Runs : \A i \in TaskIds(r) :
          /\ (tasks[r][i].pc = "check" /\ tasks'[r][i].pc # "check"
                  /\ get_value(tasks[r][i].model) = FoundId)
                => (table' = table /\ tasks'[r][i].pc = "done")
          /\ (~ tasks[r][i].inserted /\ tasks'[r][i].inserted)
                => (tasks[r][i].model.id = None /\ tasks[r][i].pc = "insert")

\* C17: the pipeline only appends to the status table: no step of a run
\* removes or replaces an existing row, and when the lookup finds a matching
\* row the task leaves the table unchanged.
C17_AppendOnly == [][C17_StepAppendsOnly]_vars

\* C17 witness: a task found the row another task had inserted and has
\* returned without inserting; the table holds that one row.
C17_Witness ==
    \E r \in Runs : \E i \in TaskIds(r) :
        /\ tasks[r][i].pc = "done"
        /\ tasks[r][i].model.id = FoundId
        /\ ~ tasks[r][i].inserted
        /\ CopiesIn(KeyOf(tasks[r][i].model), table) = 1

\* C18: process_semd_data returns True both when it inserted a new row and
\* when the lookup found a row with the same key and the insert was skipped.
C18_TrueWhetherInsertedOrSkipped ==
    \A r \in Runs : \A i \in TaskIds(r) :
        (tasks[r][i].inserted \/ tasks[r][i].model.id = FoundId)
            => tasks[r][i].pc = "done"

\* C18 witness: one task has returned after inserting its row and another
\* after finding the row already there.
C18_Witness ==
    \E r1, r2 \in Runs : \E i \in TaskIds(r1), j \in TaskIds(r2) :
        /\ tasks[r1][i].pc = "done" /\ tasks[r1][i].inserted
        /\ tasks[r2][j].pc = "done" /\ ~ tasks[r2][j].inserted
        /\ tasks[r2][j].model.id = FoundId

\* Position of a run: idle, collecting, reconciling, left (returned or raised).
Rank(pc) ==
    CASE pc = "idle" -> 0
      [] pc = "collecting" -> 1
      [] pc = "reconciling" -> 2
      [] OTHER -> 3

\* A step moves a run forward only, by one position unless it raises; it
\* returns from reconciling only; and tasks appear in the very step that
\* takes the run from collecting to reconciling, with both queries back.
C19_StepInOrder ==
    \A r \in Runs :
        /\ Rank(runPc'[r]) >= Rank(runPc[r])
        /\ (runPc'[r] # "raised" /\ runPc'[r] # runPc[r])
              => Rank(runPc'[r]) = Rank(runPc[r]) + 1
        /\ (tasks[r] = <<>> /\ tasks'[r] # <<>>)
              => /\ query[r].pc = <<"done", "done">>
                 /\ runPc[r] = "collecting" /\ runPc'[r] = "reconciling"
                 /\ semd_list'[r] = results[r][1] \o results[r][2]

\* No task exists, and no task has made a request, a lookup or an insert,
\* while its run is idle or collecting.
C19_NoTaskBeforeReconciling ==
    \A r \in Runs : Rank(runPc[r]) < 2 => tasks[r] = <<>>

\* C19: a run passes through idle, collecting, reconciling and done in that
\* order and never moves backwards, and no reconciliation task starts before
\* both collector queries have returned.
C19_RunStateMachine == []C19_NoTaskBeforeReconciling /\ [][C19_StepInOrder]_vars

\* C19 witness: a run has gone through all four positions with a task that
\* inserted its row, while another run is still collecting.
C19_Witness ==
    \E r1, r2 \in Runs :
        /\ runPc[r1] = "returned"
        /\ \E i \in TaskIds(r1) : tasks[r1][i].inserted
        /\ runPc[r2] = "collecting"
        /\ query[r2].pc = <<"done", "pending">>

\* C20: a run has exactly one task per candidate of the collected list, in
\* list order; each task has sent at most one verifier request, so the
\* requests of the run never exceed its candidates; and no two tasks of the
\* run verify the same candidate.
C20_OneTaskOneCallPerCandidate ==
    \A r \in Runs :
        /\ Len(tasks[r]) = Len(semd_list[r])
        /\ \A i \in TaskIds(r) :
              /\ tasks[r][i].data = semd_list[r][i]
              /\ tasks[r][i].requests <= 1
        /\ Cardinality({i \in TaskIds(r) : tasks[r][i].requests >= 1}) <= Len(semd_list[r])
        /\ \A i, j \in TaskIds(r) : i # j => tasks[r][i].data # tasks[r][j].data

\* C20 witness: every one of the GateRows candidates has its task, the one
\* that had to wait included, and each task has sent its one request.
C20_Witness ==
    /\ Len(semd_list[1]) = GateRows
    /\ Len(tasks[1]) = GateRows
    /\ \A i \in TaskIds(1) : tasks[1][i].requests = 1

\* The tasks, of any run, that inserted a row with key k.
InsertersOf(k) ==
    {<<r, i>> \in Runs \X (1..(2 * MaxRows)) :
        i \in TaskIds(r) /\ tasks[r][i].inserted /\ KeyOf(tasks[r][i].model) = k}

\* The candidates a run over window w collects.
CandidatesOf(w) ==
    Range(collect_semd_action_info(w)) \cup Range(collect_semd_event_info(w))

\* C21: a task whose verification failed has looked up and inserted nothing:
\* every row with its candidate's key was inserted by another task (none, if
\* no other task got that key from the verifier); and every run triggered
\* after its run had left, over a window containing the candidate, has a
\* task that sends a verifier request for it again.
C21_FailedCandidateStaysUnresolved ==
    \A r \in Runs : \A i \in TaskIds(r) :
        tasks[r][i].pc = "failed"
            => /\ tasks[r][i].model = NoModel
               /\ ~ tasks[r][i].inserted
               /\ CopiesIn(KeyOf(tasks[r][i].data), table)
                     = Cardinality(InsertersOf(KeyOf(tasks[r][i].data)))
               /\ \A r2 \in Runs :
                     (r \in after[r2] /\ Launched(r2) /\ query[r2].pc = <<"none", "none">>
                         /\ tasks[r][i].data \in CandidatesOf(window[r2]))
                        => \E j \in TaskIds(r2) :
                              /\ tasks[r2][j].data = tasks[r][i].data
                              /\ tasks[r2][j].requests = 1

\* C21 witness: the verification of a candidate failed, its run raised and
\* the table has no row with its key; a run triggered afterwards over the
\* same window has sent a request for the candidate again.
C21_Witness ==
    \E r, r2 \in Runs : \E i \in TaskIds(r), j \in TaskIds(r2) :
        /\ tasks[r][i].pc = "failed"
        /\ runPc[r] = "raised"
        /\ r \in after[r2]
        /\ CopiesIn(KeyOf(tasks[r][i].data), table) = 0
        /\ tasks[r2][j].data = tasks[r][i].data
        /\ tasks[r2][j].pc = "verify"

\* C22: the lookup matches on all 8 key columns. A task is sent on to the
\* INSERT only when no stored row equals its outcome on every column; it
\* returns without inserting only when a stored row equals it on all 8, an
\* absent value matching an absent one; and after its insert the table holds
\* the stored row and the new one.
C22_LookupMatchesAllKeyColumns ==
    \A r \in Runs : \A i \in TaskIds(r) :
        LET t == tasks[r][i]
        IN /\ t.pc = "insert" => CopiesIn(KeyOf(t.model), table) = 0
           /\ (t.pc = "done" /\ ~ t.inserted)
                 => /\ t.model.id = FoundId
                    /\ CopiesIn(KeyOf(t.model), table) = 1
                    /\ BagCardinality(table) = 1
           /\ (t.pc = "done" /\ t.inserted)
                 => /\ CopiesIn(KeyOf(t.model), table) = 1
                    /\ BagCardinality(table) = 2

\* C22 witness: the stored row differs from the outcome in action_id only,
\* absent in the one and present in the other, and the outcome has been
\* inserted next to it.
C22_Witness ==
    /\ TaskIds(1) # {}
    /\ tasks[1][1].pc = "done" /\ tasks[1][1].inserted
    /\ tasks[1][1].model.action_id # None
    /\ CopiesIn([KeyOf(tasks[1][1].model) EXCEPT !.action_id = None], table) = 1

\* C23: a send_requests_in_chunks call whose requests each succeed or fail
\* transiently eventually returns, with a result (json or None) for every
\* candidate.
C23_CallEventuallyReturns ==
    (vm.pc = "running" /\ vm.mode \in {"transient", "mixed"})
        ~> (/\ vm.pc = "returned"
            /\ \A c \in DOMAIN vm.chunks : vm.chunks[c].result \in {"json", "None"})

\* C24: a candidate never holds more than one permit of the call's
\* semaphore, and none while it waits in acquire() to be admitted.
C24_PermitOnlyWhileInFlight ==
    vm.pc # "idle" =>
        \A c \in DOMAIN vm.chunks :
            /\ vm.chunks[c].held <= 1
            /\ vm.chunks[c].pc = "blocked" => vm.chunks[c].held = 0

\* C25: of two tasks of one run whose outcomes carry the same business key,
\* at most one inserts a row.
C25_AtMostOneInsertPerKeyInRun ==
    \A r \in Runs : \A i, j \in TaskIds(r) :
        (i # j /\ tasks[r][i].inserted /\ tasks[r][j].inserted)
            => KeyOf(tasks[r][i].model) # KeyOf(tasks[r][j].model)

\* The permits taken from a run's semaphore are exactly those of the tasks
\* inside process_semd_data.
PermitsBalanced == \A r \in Runs : semaphore[r] + InGateCount(r) = GateSize

\* C26: the permits taken from a run's semaphore are exactly those of the
\* tasks inside process_semd_data, whatever number of tasks has failed or
\* returned; and when nothing can move any more no task is left waiting and
\* every permit is back.
C26_NoPermitLeak ==
    /\ PermitsBalanced
    /\ (~ ENABLED NextGate)
          => \A r \in Runs : waiters[r] = <<>> /\ semaphore[r] = GateSize

\* C26 witness: all GateSize tasks admitted first have failed, the task that
\* waited has been admitted after them and has returned, and every permit
\* is back.
C26_Witness ==
    /\ Len(tasks[1]) = GateRows
    /\ \A i \in 1..GateSize : tasks[1][i].pc = "failed"
    /\ tasks[1][GateRows].pc = "done"
    /\ semaphore[1] = GateSize

\* A task whose lookup was answered with a DatabaseException has it as the
\* id of its outcome, has returned True and has inserted nothing.
C27_ErrorStoredAsId ==
    \A r \in Runs : \A i \in TaskIds(r) :
        tasks[r][i].model.id = DatabaseException
            => /\ tasks[r][i].pc = "done"
               /\ ~ tasks[r][i].inserted
               /\ tasks[r][i].error = ""

\* The step in which the lookup is answered with a DatabaseException ends
\* the task and leaves the table as it is, like the step of a found row.
C27_StepSkipsInsert ==
    \A r \in Runs : \A i \in TaskIds(r) :
        (tasks[r][i].pc = "check" /\ tasks'[r][i].model.id \in {DatabaseException, FoundId})
            => /\ tasks'[r][i].pc = "done"
               /\ table' = table
               /\ semaphore'[r] = semaphore[r] + 1

\* C27: a lookup that fails with a non-operational database error is handled
\* exactly like an existing record: the error is stored as the id of the
\* outcome, no insert is made, nothing is raised and the task returns True.
C27_FailedLookupHandledAsExisting == []C27_ErrorStoredAsId /\ [][C27_StepSkipsInsert]_vars

\* C27 witness: a task has returned with a DatabaseException as id and no
\* insert, while the table holds no row with the key of its outcome.
C27_Witness ==
    \E r \in Runs : \E i \in TaskIds(r) :
        /\ tasks[r][i].pc = "done"
        /\ tasks[r][i].model.id = DatabaseException
        /\ CopiesIn(KeyOf(tasks[r][i].model), table) = 0
        /\ runPc[r] = "returned"

\* Tasks inside the gated section, over all runs.
TotalInGate ==
    Cardinality({<<r, i>> \in Runs \X (1..GateRows) :
                    i \in TaskIds(r) /\ tasks[r][i].pc \in InGate})

\* C28: each run has its own gate. A run never has more than GateSize tasks
\* inside; the permits missing from its semaphore are those of its own
\* tasks, so a waiting task can be admitted exactly when fewer than GateSize
\* tasks of its own run are inside, whatever the other run holds; over both
\* runs at most 2 * GateSize tasks are inside.
C28_GatePerRun ==
    /\ \A r \in Runs :
          /\ InGateCount(r) <= GateSize
          /\ semaphore[r] = GateSize - InGateCount(r)
          /\ waiters[r] # <<>>
                => ((ENABLED process_semd_data_admit(r, Head(waiters[r])))
                        <=> InGateCount(r) < GateSize)
    /\ TotalInGate <= 2 * GateSize

\* C28 witness: 16 tasks are inside the gated section, 8 of each run, among
\* them the task of run 1 that had to wait: it was admitted while run 2 held
\* all 8 permits of its own gate.
C28_Witness ==
    /\ TotalInGate = 2 * GateSize
    /\ InGateCount(1) = GateSize /\ InGateCount(2) = GateSize
    /\ Len(tasks[1]) = GateRows
    /\ tasks[1][GateRows].pc \in InGate


\* Run r is the only run triggered so far (the table was empty when it began),
\* it has returned, and no lookup or insert of it was answered with an error.
RanAlone(r) ==
    /\ runPc[r] = "returned"
    /\ \A o \in Runs \ {r} : runPc[o] = "idle"
    /\ NoDatabaseError(r)

\* The candidates of run r have pairwise distinct business keys.
DistinctCandidateKeys(r) ==
    \A i, j \in TaskIds(r) :
        i # j => KeyOf(tasks[r][i].data) # KeyOf(tasks[r][j].data)

\* The table that the verifier's answers of run r determine when the order of
\* the tasks plays no part: one row per outcome key.
OutcomeTable(r) == SetToBag({KeyOf(tasks[r][i].model) : i \in TaskIds(r)})

\* C29: when the candidates of a run have pairwise distinct keys and every
\* verification succeeded, the table after the run is determined by the
\* candidates and the verifier's answers alone (one row per outcome), whatever
\* the order in which the tasks sent their lookups and inserts.
C29_OrderIndependent ==
    \A r \in Runs :
        (RanAlone(r) /\ DistinctCandidateKeys(r)) => table = OutcomeTable(r)

\* What does hold: with a verifier that echoes each candidate the table after
\* the run is the same in every order.
OrderIndependentWithEchoingVerifier ==
    \A r \in Runs :
        (RanAlone(r) /\ DistinctCandidateKeys(r) /\ vista = "echo")
            => table = OutcomeTable(r)

\* The other order of the same answers: two tasks got the same outcome key,
\* the second looked up after the first had inserted, and one row is there.
SameAnswersOneRow ==
    \E r \in Runs : \E i, j \in TaskIds(r) :
        /\ RanAlone(r) /\ DistinctCandidateKeys(r)
        /\ i # j /\ KeyOf(tasks[r][i].model) = KeyOf(tasks[r][j].model)
        /\ tasks[r][i].inserted /\ ~ tasks[r][j].inserted
        /\ table = OutcomeTable(r)

\* The echoing verifier's run over two candidates has returned with two rows.
EchoedRunOfTwo ==
    \E r \in Runs :
        /\ RanAlone(r) /\ vista = "echo"
        /\ Len(tasks[r]) = 2
        /\ \A i \in TaskIds(r) : tasks[r][i].inserted


\* C30: under fair scheduling a run that has launched its tasks eventually
\* returns, also when the database answers with operational errors: no task
\* stays inside the gate for ever.
C30_RunEventuallyReturns ==
    (runPc[1] = "reconciling") ~> (runPc[1] = "returned")

\* What does hold: the run returns unless some statement is answered with
\* OperationalError again and again.
RunReturnsUnlessErrorsPersist ==
    (\A c \in Calls : <>[](db[c].pc # "sleeping"))
        => <>(runPc[1] = "returned")

\* The statement of a task has been executed MaxExecutions times or more and
\* the task is still inside the gate.
RetriedInsideGate ==
    \E i \in TaskIds(1) :
        /\ tasks[1][i].pc \in InGate
        /\ semaphore[1] < GateSize
        /\ db[LookupCall(i)].pc = "sleeping"
        /\ db[LookupCall(i)].executions = MaxExecutions

====
